---- MODULE Spec2Model ----
(***************************************************************************)
(* A model of the `surf` indexer: the record store (src/store.rs) with its *)
(* postcard byte encodings (src/record.rs), the extractor with its retry   *)
(* policy (src/extraction.rs), the committer (src/store.rs) and the        *)
(* orchestration of both (src/main.rs).                                    *)
(*                                                                         *)
(* Bytes are naturals 0..255, byte strings are sequences of bytes, and an  *)
(* Option<T> is a sequence of length 0 (None) or 1 (Some).                 *)
(***************************************************************************)
EXTENDS Integers, Sequences, FiniteSets, TLC

\* ------------------------------------------------------------------------
\* Bounds of the model.

\* Width in bytes of a Signature (64 in solana_sdk), scaled down.
SigLen == 1
\* Width in bytes of a Pubkey (32 in solana_sdk), scaled down.
KeyLen == 2
\* Largest block height of the modelled ledger; saved records use 0..MaxBlock.
MaxBlock == 2
\* Number of store operations in one run of the store specification.
MaxSaves == 2
\* Height of the last block the modelled ledger holds.
LastSlot == 3
\* Number of times the process is stopped and started again in one run.
MaxCrashes == 1

None == <<>>
Some(x) == <<x>>

\* ------------------------------------------------------------------------
\* Values the records are built from.

\* A byte string of the given width that repeats one byte after a leading one.
Wide(first, rest, width) == [i \in 1..width |-> IF i = 1 THEN first ELSE rest]

Signatures == {Wide(1, 1, SigLen), Wide(3, 1, SigLen)}
\* The first address starts with the byte that is also the varint of block 2.
Pubkeys == {Wide(2, 7, KeyLen), Wide(9, 9, KeyLen)}
Blocks == 0..MaxBlock
Timestamps == {7}
Lamports == {0, 2}

Votes ==
    [signature : Signatures, block_index : Blocks, timestamp : Timestamps,
     author : Pubkeys, target : {Wide(9, 9, KeyLen)}]

Transfers ==
    [signature : Signatures, block_index : Blocks, timestamp : Timestamps,
     source : {Wide(2, 7, KeyLen)}, destination : Pubkeys, lamports : Lamports]

\* ------------------------------------------------------------------------
\* postcard: the wire format of the stored bytes.

RECURSIVE varint(_)
\* postcard writes a u64 as a LEB128 varint: 7 bits per byte, low bits first,
\* the high bit of a byte set when more bytes follow.
varint(n) ==
    IF n < 128 THEN <<n>> ELSE <<128 + (n % 128)>> \o varint(n \div 128)

RECURSIVE take_varint(_, _)
\* Reads a varint at position pos (1-based) of bytes: [ok, val, next].
take_varint(bytes, pos) ==
    IF pos > Len(bytes) THEN [ok |-> FALSE, val |-> 0, next |-> pos]
    ELSE IF bytes[pos] < 128 THEN [ok |-> TRUE, val |-> bytes[pos], next |-> pos + 1]
    ELSE LET more == take_varint(bytes, pos + 1)
         IN  [ok |-> more.ok, val |-> (bytes[pos] - 128) + 128 * more.val,
              next |-> more.next]

\* Reads a fixed-width array (a Signature or a Pubkey) at position pos.
take_array(bytes, pos, width) ==
    IF pos + width - 1 > Len(bytes) THEN [ok |-> FALSE, val |-> <<>>, next |-> pos]
    ELSE [ok |-> TRUE, val |-> SubSeq(bytes, pos, pos + width - 1), next |-> pos + width]

\* A string is written as its length (varint) followed by its bytes.
ser_str(s) == varint(Len(s)) \o s

\* A fixed-width byte array (Signature, Pubkey) is written as its bytes.
ser_array(a) == a

\* The Bitcoin base58 alphabet, as ASCII codes.
Base58Alphabet ==
    <<49, 50, 51, 52, 53, 54, 55, 56, 57,
      65, 66, 67, 68, 69, 70, 71, 72,
      74, 75, 76, 77, 78,
      80, 81, 82, 83, 84, 85, 86, 87, 88, 89, 90,
      97, 98, 99, 100, 101, 102, 103, 104, 105, 106, 107,
      109, 110, 111, 112, 113, 114, 115, 116, 117, 118, 119, 120, 121, 122>>

RECURSIVE BigEndian(_)
BigEndian(bytes) ==
    IF bytes = <<>> THEN 0
    ELSE 256 * BigEndian(SubSeq(bytes, 1, Len(bytes) - 1)) + bytes[Len(bytes)]

RECURSIVE LeadingZeros(_)
LeadingZeros(bytes) ==
    IF bytes = <<>> \/ bytes[1] # 0 THEN 0 ELSE 1 + LeadingZeros(Tail(bytes))

RECURSIVE Base58Digits(_)
Base58Digits(n) ==
    IF n = 0 THEN <<>>
    ELSE Base58Digits(n \div 58) \o <<Base58Alphabet[(n % 58) + 1]>>

\* Signature::to_string and Pubkey::to_string: base58 of the bytes.
to_string(bytes) ==
    [i \in 1..LeadingZeros(bytes) |-> 49] \o Base58Digits(BigEndian(bytes))

\* ------------------------------------------------------------------------
\* src/record.rs: how a record is written and how it is read back.

\* ASCII of the map keys written by the hand-written Serialize impls.
K_signature == <<115, 105, 103, 110, 97, 116, 117, 114, 101>>
K_block == <<98, 108, 111, 99, 107>>
K_timestamp == <<116, 105, 109, 101, 115, 116, 97, 109, 112>>
K_author == <<97, 117, 116, 104, 111, 114>>
K_target == <<116, 97, 114, 103, 101, 116>>
K_source == <<115, 111, 117, 114, 99, 101>>
K_destination == <<100, 101, 115, 116, 105, 110, 97, 116, 105, 111, 110>>
K_lamports == <<108, 97, 109, 112, 111, 114, 116, 115>>

\* impl Serialize for Vote: a map of 5 entries, string keys, the identifiers
\* rendered with to_string. postcard writes the map length, then each key and
\* value in turn.
serialize_vote(vote) ==
    varint(5)
        \o ser_str(K_signature) \o ser_str(to_string(vote.signature))
        \o ser_str(K_block) \o varint(vote.block_index)
        \o ser_str(K_timestamp) \o varint(vote.timestamp)
        \o ser_str(K_author) \o ser_str(to_string(vote.author))
        \o ser_str(K_target) \o ser_str(to_string(vote.target))

\* impl Serialize for Transfer: declared as a map of 5, six entries written.
serialize_transfer(transfer) ==
    varint(5)
        \o ser_str(K_signature) \o ser_str(to_string(transfer.signature))
        \o ser_str(K_block) \o varint(transfer.block_index)
        \o ser_str(K_timestamp) \o varint(transfer.timestamp)
        \o ser_str(K_source) \o ser_str(to_string(transfer.source))
        \o ser_str(K_destination) \o ser_str(to_string(transfer.destination))
        \o ser_str(K_lamports) \o varint(transfer.lamports)

\* #[derive(Deserialize)] on Vote, read by postcard: the fields in declaration
\* order, no keys, no lengths; bytes left over are ignored. None on a short read.
deserialize_vote(bytes) ==
    LET f1 == take_array(bytes, 1, SigLen)
        f2 == take_varint(bytes, f1.next)
        f3 == take_varint(bytes, f2.next)
        f4 == take_array(bytes, f3.next, KeyLen)
        f5 == take_array(bytes, f4.next, KeyLen)
    IN  IF f1.ok /\ f2.ok /\ f3.ok /\ f4.ok /\ f5.ok
        THEN Some([signature |-> f1.val, block_index |-> f2.val, timestamp |-> f3.val,
                   author |-> f4.val, target |-> f5.val])
        ELSE None

\* #[derive(Deserialize)] on Transfer, read by postcard.
deserialize_transfer(bytes) ==
    LET f1 == take_array(bytes, 1, SigLen)
        f2 == take_varint(bytes, f1.next)
        f3 == take_varint(bytes, f2.next)
        f4 == take_array(bytes, f3.next, KeyLen)
        f5 == take_array(bytes, f4.next, KeyLen)
        f6 == take_varint(bytes, f5.next)
    IN  IF f1.ok /\ f2.ok /\ f3.ok /\ f4.ok /\ f5.ok /\ f6.ok
        THEN Some([signature |-> f1.val, block_index |-> f2.val, timestamp |-> f3.val,
                   source |-> f4.val, destination |-> f5.val, lamports |-> f6.val])
        ELSE None

\* ------------------------------------------------------------------------
\* src/store.rs: the key-value store. A column family is a set of
\* <<key, value>> pairs with at most one pair per key.

DEFAULT_NS == "default"
VOTES_NS == "vote"
TRANSFERS_NS == "transfer"
VOTES_INDEX_NS == "+votes"
TRANSFERS_INDEX_NS == "+transfers"
Namespaces == {DEFAULT_NS, VOTES_NS, TRANSFERS_NS, VOTES_INDEX_NS, TRANSFERS_INDEX_NS}

LAST_KNOWN_BLOCK_KEY == <<27, 17>>

\* A store right after Store::with_path created it.
EmptyStore == [ns \in Namespaces |-> {}]

put_cf(d, cf, key, value) ==
    [d EXCEPT ![cf] = {p \in @ : p[1] # key} \cup {<<key, value>>}]

get_cf(d, cf, key) ==
    LET hit == {p \in d[cf] : p[1] = key}
    IN  IF hit = {} THEN None ELSE Some((CHOOSE p \in hit : TRUE)[2])

\* Byte strings compared as RocksDB's default comparator does.
RECURSIVE LexLess(_, _)
LexLess(a, b) ==
    IF b = <<>> THEN FALSE
    ELSE IF a = <<>> THEN TRUE
    ELSE IF a[1] # b[1] THEN a[1] < b[1]
    ELSE LexLess(Tail(a), Tail(b))

RECURSIVE InKeyOrder(_)
\* The pairs of a column family in the order an iterator yields them.
InKeyOrder(pairs) ==
    IF pairs = {} THEN <<>>
    ELSE LET first == CHOOSE p \in pairs : \A q \in pairs \ {p} : LexLess(p[1], q[1])
         IN  <<first>> \o InKeyOrder(pairs \ {first})

IsPrefix(prefix, key) ==
    Len(prefix) <= Len(key) /\ SubSeq(key, 1, Len(prefix)) = prefix

\* full_iterator_cf(cf, IteratorMode::Start)
full_iterator_cf(d, cf) == InKeyOrder(d[cf])

\* prefix_iterator_cf(cf, prefix): the entries whose key starts with prefix.
prefix_iterator_cf(d, cf, prefix) ==
    InKeyOrder({p \in d[cf] : IsPrefix(prefix, p[1])})

\* Store::last_known_block
last_known_block(d) ==
    LET gotten == get_cf(d, DEFAULT_NS, LAST_KNOWN_BLOCK_KEY)
    IN  IF gotten = None THEN None
        ELSE LET read == take_varint(gotten[1], 1)
             IN  IF read.ok THEN Some(read.val) ELSE None

\* Store::set_last_known_block
set_last_known_block(d, block) ==
    put_cf(d, DEFAULT_NS, LAST_KNOWN_BLOCK_KEY, varint(block))

\* Option::unwrap_or
unwrap_or(opt, default) == IF opt = None THEN default ELSE opt[1]

\* A bump that writes whatever block it is given.
bump_last_known_block_always(d, block_index) ==
    set_last_known_block(d, block_index)

\* Store::bump_last_known_block
bump_last_known_block(d, block_index) ==
    IF block_index > unwrap_or(last_known_block(d), 0)
    THEN set_last_known_block(d, block_index)
    ELSE d

\* An index entry keyed by the secondary key and the number of entries so far.
associate_appending(d, cf, secondary_key, primary_key) ==
    put_cf(d, cf, secondary_key \o varint(Cardinality(d[cf])), ser_array(primary_key))

\* Store::associate. secondary_key is the postcard encoding of the secondary
\* key (a varint for a u64, the bytes for a Pubkey).
associate(d, cf, secondary_key, primary_key) ==
    put_cf(d, cf, secondary_key \o ser_array(primary_key), ser_array(primary_key))

\* A save_vote that writes the index entry of the block before the row.
save_vote_step_index_first(d, vote, i) ==
    CASE i = 1 -> bump_last_known_block(d, vote.block_index)
      [] i = 2 -> associate(d, VOTES_INDEX_NS, varint(vote.block_index), vote.signature)
      [] i = 3 -> put_cf(d, VOTES_NS, ser_array(vote.signature), serialize_vote(vote))
      [] i = 4 -> associate(d, VOTES_INDEX_NS, ser_array(vote.target), vote.signature)
      [] i = 5 -> associate(d, VOTES_INDEX_NS, ser_array(vote.author), vote.signature)

\* A save_vote that writes the row before it advances the watermark.
save_vote_step_row_first(d, vote, i) ==
    CASE i = 1 -> put_cf(d, VOTES_NS, ser_array(vote.signature), serialize_vote(vote))
      [] i = 2 -> bump_last_known_block(d, vote.block_index)
      [] i = 3 -> associate(d, VOTES_INDEX_NS, varint(vote.block_index), vote.signature)
      [] i = 4 -> associate(d, VOTES_INDEX_NS, ser_array(vote.target), vote.signature)
      [] i = 5 -> associate(d, VOTES_INDEX_NS, ser_array(vote.author), vote.signature)

\* The writes of Store::save_vote, in order; step i is the i-th write.
VoteSteps == 5
save_vote_step(d, vote, i) ==
    CASE i = 1 -> bump_last_known_block(d, vote.block_index)
      [] i = 2 -> put_cf(d, VOTES_NS, ser_array(vote.signature), serialize_vote(vote))
      [] i = 3 -> associate(d, VOTES_INDEX_NS, varint(vote.block_index), vote.signature)
      [] i = 4 -> associate(d, VOTES_INDEX_NS, ser_array(vote.target), vote.signature)
      [] i = 5 -> associate(d, VOTES_INDEX_NS, ser_array(vote.author), vote.signature)

\* The writes of Store::save_transfer, in order.
TransferSteps == 6
save_transfer_step(d, transfer, i) ==
    CASE i = 1 -> bump_last_known_block(d, transfer.block_index)
      [] i = 2 -> put_cf(d, TRANSFERS_NS, ser_array(transfer.signature),
                         serialize_transfer(transfer))
      [] i = 3 -> associate(d, TRANSFERS_INDEX_NS, varint(transfer.block_index),
                            transfer.signature)
      [] i = 4 -> associate(d, TRANSFERS_INDEX_NS, ser_array(transfer.source),
                            transfer.signature)
      [] i = 5 -> associate(d, TRANSFERS_INDEX_NS, ser_array(transfer.destination),
                            transfer.signature)
      [] i = 6 -> associate(d, TRANSFERS_INDEX_NS, varint(transfer.lamports),
                            transfer.signature)

RECURSIVE save_vote_upto(_, _, _)
save_vote_upto(d, vote, n) ==
    IF n = 0 THEN d ELSE save_vote_step(save_vote_upto(d, vote, n - 1), vote, n)

RECURSIVE save_transfer_upto(_, _, _)
save_transfer_upto(d, transfer, n) ==
    IF n = 0 THEN d
    ELSE save_transfer_step(save_transfer_upto(d, transfer, n - 1), transfer, n)

\* Store::save_vote, every write succeeding.
save_vote(d, vote) == save_vote_upto(d, vote, VoteSteps)

\* Store::save_transfer, every write succeeding.
save_transfer(d, transfer) == save_transfer_upto(d, transfer, TransferSteps)

\* Store::find_vote
find_vote(d, key) ==
    LET vote == get_cf(d, VOTES_NS, ser_array(key))
    IN  IF vote = None THEN None ELSE deserialize_vote(vote[1])

\* Store::find_transfer
find_transfer(d, key) ==
    LET transfer == get_cf(d, TRANSFERS_NS, ser_array(key))
    IN  IF transfer = None THEN None ELSE deserialize_transfer(transfer[1])

\* The Some values of a sequence of options, in order.
RECURSIVE Flatten(_)
Flatten(opts) ==
    IF opts = <<>> THEN <<>> ELSE Head(opts) \o Flatten(Tail(opts))

\* Store::find_all_votes
find_all_votes(d) ==
    LET rows == full_iterator_cf(d, VOTES_NS)
    IN  Flatten([i \in 1..Len(rows) |-> deserialize_vote(rows[i][2])])

\* Store::find_all_transfers
find_all_transfers(d) ==
    LET rows == full_iterator_cf(d, TRANSFERS_NS)
    IN  Flatten([i \in 1..Len(rows) |-> deserialize_transfer(rows[i][2])])

\* The primary keys a block-index lookup resolves, in scan order: the values
\* of the index entries under the prefix, read back as Signatures.
index_hits(d, cf, block_index) ==
    LET rows == prefix_iterator_cf(d, cf, varint(block_index))
        keys == [i \in 1..Len(rows) |-> take_array(rows[i][2], 1, SigLen)]
    IN  Flatten([i \in 1..Len(rows) |-> IF keys[i].ok THEN Some(keys[i].val) ELSE None])

\* Store::find_votes_by_block_index
find_votes_by_block_index(d, block_index) ==
    LET keys == index_hits(d, VOTES_INDEX_NS, block_index)
    IN  Flatten([i \in 1..Len(keys) |-> find_vote(d, keys[i])])

\* Store::find_transfers_by_block_index
find_transfers_by_block_index(d, block_index) ==
    LET keys == index_hits(d, TRANSFERS_INDEX_NS, block_index)
    IN  Flatten([i \in 1..Len(keys) |-> find_transfer(d, keys[i])])

\* ------------------------------------------------------------------------
\* src/interface.rs and src/interface/: the queries of the read API, up to
\* the records they select (the JSON rendering is left out).

\* The place of a character in the base58 alphabet, 0 when it has none.
Base58Index(ch) ==
    IF \E i \in 1..Len(Base58Alphabet) : Base58Alphabet[i] = ch
    THEN CHOOSE i \in 1..Len(Base58Alphabet) : Base58Alphabet[i] = ch
    ELSE 0

RECURSIVE Base58Value(_)
Base58Value(chars) ==
    IF chars = <<>> THEN 0
    ELSE 58 * Base58Value(SubSeq(chars, 1, Len(chars) - 1))
         + (Base58Index(chars[Len(chars)]) - 1)

RECURSIVE BytesOf(_)
BytesOf(n) == IF n = 0 THEN <<>> ELSE BytesOf(n \div 256) \o <<n % 256>>

RECURSIVE LeadingOnes(_)
LeadingOnes(chars) ==
    IF chars = <<>> \/ chars[1] # 49 THEN 0 ELSE 1 + LeadingOnes(Tail(chars))

\* Signature::from_str and Pubkey::from_str: the bytes a base58 string
\* stands for, None (an error) unless they are exactly `width` bytes.
from_str(chars, width) ==
    IF \E i \in 1..Len(chars) : Base58Index(chars[i]) = 0 THEN None
    ELSE LET bytes == [i \in 1..LeadingOnes(chars) |-> 0] \o BytesOf(Base58Value(chars))
         IN  IF Len(bytes) = width THEN Some(bytes) ELSE None

\* `filter.as_deref().map(Pubkey::from_str).transpose()?`: Some(None) for an
\* absent filter, Some(Some(key)) for a parsed one, None for an error.
parse_filter(filter) ==
    IF filter = None THEN Some(None)
    ELSE IF from_str(filter[1], KeyLen) = None THEN None
    ELSE Some(from_str(filter[1], KeyLen))

\* The elements of a sequence marked to be kept, in order.
Filter(seq, keep) ==
    Flatten([i \in 1..Len(seq) |-> IF keep[i] THEN Some(seq[i]) ELSE None])

Ok(rows) == [ok |-> TRUE, rows |-> rows]
Err == [ok |-> FALSE, rows |-> <<>>]

\* find_votes_with_block_index
find_votes_with_block_index(d, block_index) ==
    LET results == find_votes_by_block_index(d, block_index)
    IN  Ok(Filter(results,
                  [i \in 1..Len(results) |-> results[i].block_index = block_index]))

\* find_transfers_with_block_index
find_transfers_with_block_index(d, block_index) ==
    LET results == find_transfers_by_block_index(d, block_index)
    IN  Ok(Filter(results,
                  [i \in 1..Len(results) |-> results[i].block_index = block_index]))

\* find_votes_with_signature
find_votes_with_signature(d, signature) ==
    LET parsed == from_str(signature, SigLen)
    IN  IF parsed = None THEN Err
        ELSE IF find_vote(d, parsed[1]) = None THEN Err
        ELSE Ok(find_vote(d, parsed[1]))

\* find_transfers_with_signature
find_transfers_with_signature(d, signature) ==
    LET parsed == from_str(signature, SigLen)
    IN  IF parsed = None THEN Err
        ELSE IF find_transfer(d, parsed[1]) = None THEN Err
        ELSE Ok(find_transfer(d, parsed[1]))

\* find_votes_with_full_scan
find_votes_with_full_scan(d, block, to, from) ==
    LET all_votes == find_all_votes(d)
    IN  Ok(Filter(all_votes,
                  [i \in 1..Len(all_votes) |->
                      /\ block # None => all_votes[i].block_index = block[1]
                      /\ to # None => all_votes[i].target = to[1]
                      /\ from # None => all_votes[i].author = from[1]]))

\* find_transfers_with_full_scan
find_transfers_with_full_scan(d, block, to, from) ==
    LET all_transfers == find_all_transfers(d)
    IN  Ok(Filter(all_transfers,
                  [i \in 1..Len(all_transfers) |->
                      /\ block # None => all_transfers[i].block_index = block[1]
                      /\ to # None => all_transfers[i].destination = to[1]
                      /\ from # None => all_transfers[i].source = from[1]]))

\* The query strings of a request: each filter absent or present.
Criteria ==
    [signature : {None} \cup {Some(to_string(s)) : s \in Signatures},
     block : {None} \cup {Some(b) : b \in Blocks},
     to : {None} \cup {Some(to_string(k)) : k \in Pubkeys},
     from : {None} \cup {Some(to_string(k)) : k \in Pubkeys}]

\* get_votes, up to `votes?`
get_votes(d, filters) ==
    IF filters.signature # None /\ filters.block = None
       /\ filters.to = None /\ filters.from = None
    THEN find_votes_with_signature(d, filters.signature[1])
    ELSE IF filters.signature = None /\ filters.block # None
            /\ filters.to = None /\ filters.from = None
    THEN find_votes_with_block_index(d, filters.block[1])
    ELSE LET to == parse_filter(filters.to)
             from == parse_filter(filters.from)
         IN  IF to = None \/ from = None THEN Err
             ELSE find_votes_with_full_scan(d, filters.block, to[1], from[1])

\* get_transfers, up to `transfers?`
get_transfers(d, filters) ==
    IF filters.signature # None /\ filters.block = None
       /\ filters.to = None /\ filters.from = None
    THEN find_transfers_with_signature(d, filters.signature[1])
    ELSE IF filters.signature = None /\ filters.block # None
            /\ filters.to = None /\ filters.from = None
    THEN find_transfers_with_block_index(d, filters.block[1])
    ELSE LET to == parse_filter(filters.to)
             from == parse_filter(filters.from)
         IN  IF to = None \/ from = None THEN Err
             ELSE find_transfers_with_full_scan(d, filters.block, to[1], from[1])

\* ------------------------------------------------------------------------
\* State.

VARIABLES
    db,           \* the RocksDB database: column family -> set of <<key, value>>
    nsaves,       \* number of completed saves (store specification)
    saved,        \* kind -> the records ever passed to a completed save
    last,         \* kind -> signature -> the record of the latest completed save
    op,           \* the latest completed save: kind, record, watermark before it
    mPc,          \* main: "serving", "joining", "stopped" or "error"
    cancelled,    \* the CancellationToken `stop`
    ePc,          \* extractor: "connect", "fetch", "emit", "check", "done", "gaveup",
                  \* "panicked", "unspawned" (dry run), "killed" (dropped with
                  \* the runtime)
    since_block,  \* extract_continuously: the checkpoint, an Option<u64>
    next_block,   \* do_extract_continuously: the cursor
    retries,      \* extract_continuously: the retry counter
    pending,      \* the records of the fetched block not yet sent
    chan,         \* the mpsc channel between extractor and committer
    cPc,          \* committer: "idle", "loop", "save", "done", "cancelled", "failed",
                  \* "unspawned", "killed"
    cRec,         \* the record the committer is saving, an Option
    cStep,        \* the next write of that save
    attempts,     \* calls of do_extract_continuously since the process started
    failed_block, \* the block the latest failed attempt was processing, an Option
    emitted,      \* the records sent on the channel since the process started
    crashes,      \* times the process was stopped and started again
    restart_wm,   \* the watermark main read when the process last started
    dry,          \* args.dry of the running process
    sent,         \* the records whose send completed, in order, since the start
    committed,    \* the records the committer passed to a save, in order
    first_fetched, \* the first height asked from the node since the start
    fetched,      \* the heights asked from the node since the start
    outcome,      \* the latest fetch: "none", "ok", "missing", "error", "no time",
                  \* or, for a block that was received, how its extraction
                  \* ends: "ok", "invalid" (an error), "panic"
    received      \* the transactions of the block received last

storeVars == <<db, nsaves, saved, last, op>>
pipeVars ==
    <<mPc, cancelled, ePc, since_block, next_block, retries, pending, chan, cPc,
      cRec, cStep, attempts, failed_block, emitted, crashes, restart_wm, dry,
      sent, committed, first_fetched, fetched, outcome, received>>
vars == <<storeVars, pipeVars>>

Kinds == {"vote", "transfer"}
NoOp == [kind |-> "none"]

InitStore ==
    /\ db = EmptyStore
    /\ nsaves = 0
    /\ saved = [k \in Kinds |-> {}]
    /\ last = [k \in Kinds |-> [s \in Signatures |-> None]]
    /\ op = NoOp
    /\ mPc = "stopped"
    /\ cancelled = FALSE
    /\ ePc = "done"
    /\ since_block = None
    /\ next_block = 0
    /\ retries = 0
    /\ pending = <<>>
    /\ chan = <<>>
    /\ cPc = "done"
    /\ cRec = None
    /\ cStep = 0
    /\ attempts = 0
    /\ failed_block = None
    /\ emitted = {}
    /\ crashes = 0
    /\ restart_wm = None
    /\ dry = TRUE
    /\ sent = <<>>
    /\ committed = <<>>
    /\ first_fetched = None
    /\ fetched = {}
    /\ outcome = "none"
    /\ received = <<>>

\* What a completed save leaves in the history variables.
Completed(kind, record) ==
    /\ nsaves' = nsaves + 1
    /\ saved' = [saved EXCEPT ![kind] = @ \cup {record}]
    /\ last' = [last EXCEPT ![kind][record.signature] = Some(record)]
    /\ op' = [kind |-> kind, record |-> record, before |-> last_known_block(db),
              again |-> (last[kind][record.signature] = Some(record))]

\* ------------------------------------------------------------------------
\* The store driven directly by its single writer.

SaveVote ==
    /\ nsaves < MaxSaves
    /\ \E vote \in Votes :
        /\ db' = save_vote(db, vote)
        /\ Completed("vote", vote)
    /\ UNCHANGED pipeVars

SaveTransfer ==
    /\ nsaves < MaxSaves
    /\ \E transfer \in Transfers :
        /\ db' = save_transfer(db, transfer)
        /\ Completed("transfer", transfer)
    /\ UNCHANGED pipeVars

NextStore == SaveVote \/ SaveTransfer

SpecStore == InitStore /\ [][NextStore]_vars

\* ------------------------------------------------------------------------
\* The ledger the RPC node serves: for each height either no block (the node
\* answers -32007) or the vote and transfer instructions of its transactions.

\* get_first_slot_in_epoch(current_epoch), as the node reports it.
EpochFirstSlot == 1
\* The block time the node reports for every block.
BlockTime == 7

Slots == EpochFirstSlot..LastSlot

BlockMissing(b) == b % 3 = 2

\* The signature of the i-th transaction of block b.
TxSignature(b, i) == Wide(10 * b + i, 1, SigLen)

LedgerVote(b) ==
    [kind |-> "vote",
     record |-> [signature |-> TxSignature(b, 1), block_index |-> b,
                 timestamp |-> BlockTime, author |-> Wide(2, 7, KeyLen),
                 target |-> Wide(9, 9, KeyLen)]]

LedgerTransfer(b) ==
    [kind |-> "transfer",
     record |-> [signature |-> TxSignature(b, 2), block_index |-> b,
                 timestamp |-> BlockTime, source |-> Wide(2, 7, KeyLen),
                 destination |-> Wide(9, 9, KeyLen), lamports |-> 2]]

\* What extract_transactions sends for block b, in order.
BlockRecords(b) ==
    IF BlockMissing(b) THEN <<>>
    ELSE IF b % 3 = 1 THEN <<LedgerVote(b), LedgerTransfer(b)>>
    ELSE <<LedgerTransfer(b)>>

\* ------------------------------------------------------------------------
\* src/extraction.rs: what a fetched block is made of and what
\* extract_transactions does with it.

\* serde_json::Value, as far as the extraction looks at it.
JNull == [t |-> "null"]
JString(chars) == [t |-> "string", s |-> chars]
JNumber(n) == [t |-> "number", n |-> n]
JObject(fields) == [t |-> "object", o |-> fields]

\* Map::get: the value of a field of a JSON object, None when it has none.
get(object, name) == IF name \in DOMAIN object THEN Some(object[name]) ELSE None

\* Number::as_u64: None for a number that is no u64; of those the model
\* has the negative integers.
as_u64(n) == IF n >= 0 THEN Some(n) ELSE None

\* The result of emit_vote / emit_transfer: the record sent, if any, and
\* whether Ok(()) was returned.
Emitted(records) == [sends |-> records, ok |-> TRUE]
NotEmitted == [sends |-> <<>>, ok |-> TRUE]
EmitError == [sends |-> <<>>, ok |-> FALSE]

\* An emit_vote that takes an address it cannot parse for a missing field.
emit_vote_lenient(signature, block_index, timestamp, data) ==
    IF data.t # "object" THEN NotEmitted
    ELSE LET info == get(data.o, "info")
         IN  IF info = None \/ info[1].t # "object" THEN NotEmitted
             ELSE LET vote_account == get(info[1].o, "voteAccount")
                      vote_authority == get(info[1].o, "voteAuthority")
                  IN  IF vote_account = None \/ vote_account[1].t # "string"
                        THEN NotEmitted
                      ELSE IF vote_authority = None \/ vote_authority[1].t # "string"
                        THEN NotEmitted
                      ELSE IF from_str(vote_account[1].s, KeyLen) = None THEN NotEmitted
                      ELSE IF from_str(vote_authority[1].s, KeyLen) = None
                        THEN NotEmitted
                      ELSE Emitted(<<[kind |-> "vote",
                                      record |->
                                        [signature |-> signature,
                                         block_index |-> block_index,
                                         timestamp |-> timestamp,
                                         author |-> from_str(vote_authority[1].s, KeyLen)[1],
                                         target |-> from_str(vote_account[1].s, KeyLen)[1]]]>>)

\* emit_vote
emit_vote(signature, block_index, timestamp, data) ==
    IF data.t # "object" THEN NotEmitted
    ELSE LET info == get(data.o, "info")
         IN  IF info = None \/ info[1].t # "object" THEN NotEmitted
             ELSE LET vote_account == get(info[1].o, "voteAccount")
                      vote_authority == get(info[1].o, "voteAuthority")
                  IN  IF vote_account = None \/ vote_account[1].t # "string"
                        THEN NotEmitted
                      ELSE IF vote_authority = None \/ vote_authority[1].t # "string"
                        THEN NotEmitted
                      ELSE IF from_str(vote_account[1].s, KeyLen) = None THEN EmitError
                      ELSE IF from_str(vote_authority[1].s, KeyLen) = None
                        THEN EmitError
                      ELSE Emitted(<<[kind |-> "vote",
                                      record |->
                                        [signature |-> signature,
                                         block_index |-> block_index,
                                         timestamp |-> timestamp,
                                         author |-> from_str(vote_authority[1].s, KeyLen)[1],
                                         target |-> from_str(vote_account[1].s, KeyLen)[1]]]>>)

\* emit_transfer
emit_transfer(signature, block_index, timestamp, data) ==
    IF data.t # "object" THEN NotEmitted
    ELSE LET info == get(data.o, "info")
         IN  IF info = None \/ info[1].t # "object" THEN NotEmitted
             ELSE LET source == get(info[1].o, "source")
                      destination == get(info[1].o, "destination")
                      lamports == get(info[1].o, "lamports")
                  IN  IF source = None \/ source[1].t # "string" THEN NotEmitted
                      ELSE IF destination = None \/ destination[1].t # "string"
                        THEN NotEmitted
                      ELSE IF lamports = None \/ lamports[1].t # "number"
                        THEN NotEmitted
                      ELSE IF from_str(source[1].s, KeyLen) = None THEN EmitError
                      ELSE IF from_str(destination[1].s, KeyLen) = None THEN EmitError
                      ELSE IF as_u64(lamports[1].n) = None THEN EmitError
                      ELSE Emitted(<<[kind |-> "transfer",
                                      record |->
                                        [signature |-> signature,
                                         block_index |-> block_index,
                                         timestamp |-> timestamp,
                                         source |-> from_str(source[1].s, KeyLen)[1],
                                         destination |->
                                           from_str(destination[1].s, KeyLen)[1],
                                         lamports |-> as_u64(lamports[1].n)[1]]]>>)

\* The program ids extract_transactions looks for.
VOTE_PROGRAM == "Vote111111111111111111111111111111111111111"
SYSTEM_PROGRAM == "11111111111111111111111111111111"

\* extract_transactions, the match on the program id of one instruction.
emit(signature, block_index, timestamp, instruction) ==
    IF instruction.form # "parsed" THEN NotEmitted
    ELSE IF instruction.program_id = VOTE_PROGRAM
      THEN emit_vote(signature, block_index, timestamp, instruction.parsed)
    ELSE IF instruction.program_id = SYSTEM_PROGRAM
      THEN emit_transfer(signature, block_index, timestamp, instruction.parsed)
    ELSE NotEmitted

\* extract_transactions, the loop over the instructions of one message: the
\* records sent, in order, and "ok", or "err" when an emit returned an error
\* (the `?` leaves the function, the records sent before stay sent).
RECURSIVE extract_instructions(_, _, _, _)
extract_instructions(signature, block_index, timestamp, instructions) ==
    IF instructions = <<>> THEN [sends |-> <<>>, result |-> "ok"]
    ELSE LET first == emit(signature, block_index, timestamp, Head(instructions))
             rest == extract_instructions(signature, block_index, timestamp,
                                          Tail(instructions))
         IN  IF first.ok
             THEN [sends |-> first.sends \o rest.sends, result |-> rest.result]
             ELSE [sends |-> <<>>, result |-> "err"]

\* extract_transactions: `Signature::from_str(&transaction.signatures[0])`;
\* indexing an empty Vec panics.
first_signature(signatures) ==
    IF signatures = <<>> THEN [panic |-> TRUE, signature |-> None]
    ELSE [panic |-> FALSE, signature |-> from_str(signatures[1], SigLen)]

\* extract_transactions: the records sent for the transactions of a block,
\* in order, and how the call ends: "ok", "err" (an error is returned) or
\* "panic" (the task panics).
RECURSIVE extract_transactions(_, _, _)
extract_transactions(block_index, block_time, transactions) ==
    IF transactions = <<>> THEN [sends |-> <<>>, result |-> "ok"]
    ELSE LET transaction == Head(transactions)
             rest == extract_transactions(block_index, block_time, Tail(transactions))
             main_signature == first_signature(transaction.signatures)
         IN  IF transaction.encoding # "json" THEN rest
             ELSE IF main_signature.panic THEN [sends |-> <<>>, result |-> "panic"]
             ELSE IF main_signature.signature = None THEN rest
             ELSE IF transaction.message.form # "parsed" THEN rest
             ELSE LET this == extract_instructions(main_signature.signature[1],
                                                   block_index, block_time,
                                                   transaction.message.instructions)
                  IN  IF this.result = "ok"
                      THEN [sends |-> this.sends \o rest.sends, result |-> rest.result]
                      ELSE this

\* The transactions of a block as the node returns them.

Address(bytes) == JString(to_string(bytes))

VoteInstruction(account, authority) ==
    [form |-> "parsed", program_id |-> VOTE_PROGRAM,
     parsed |-> JObject([info |-> JObject([voteAccount |-> account,
                                           voteAuthority |-> authority])])]

TransferInstruction(source, destination, lamports) ==
    [form |-> "parsed", program_id |-> SYSTEM_PROGRAM,
     parsed |-> JObject([info |-> JObject([source |-> source,
                                           destination |-> destination,
                                           lamports |-> lamports])])]

JsonTransaction(signatures, instructions) ==
    [encoding |-> "json", signatures |-> signatures,
     message |-> [form |-> "parsed", instructions |-> instructions]]

\* The transaction a record was made from.
Transaction(item) ==
    JsonTransaction(
        <<to_string(item.record.signature)>>,
        IF item.kind = "vote"
        THEN <<VoteInstruction(Address(item.record.target), Address(item.record.author))>>
        ELSE <<TransferInstruction(Address(item.record.source),
                                   Address(item.record.destination),
                                   JNumber(item.record.lamports))>>)

\* The transactions of block b of the ledger.
LedgerBlock(b) == [i \in 1..Len(BlockRecords(b)) |-> Transaction(BlockRecords(b)[i])]

\* A string that is not base58: the character `0`.
NotBase58 == <<48>>

\* A transaction in another encoding than the one asked for.
BinaryTransaction ==
    [encoding |-> "binary", signatures |-> <<>>,
     message |-> [form |-> "raw", instructions |-> <<>>]]

\* A transaction with an empty list of signatures.
UnsignedTransaction ==
    JsonTransaction(<<>>, <<VoteInstruction(Address(Wide(9, 9, KeyLen)),
                                            Address(Wide(2, 7, KeyLen)))>>)

\* A vote whose voteAccount is a string that is no address.
UnparseableVote(b) ==
    JsonTransaction(<<to_string(TxSignature(b, 3))>>,
                    <<VoteInstruction(JString(NotBase58), Address(Wide(2, 7, KeyLen)))>>)

\* What get_block_with_config may return for block b: the block of the
\* ledger, alone or after one transaction of the kinds above.
Served(b) ==
    {LedgerBlock(b),
     <<UnsignedTransaction>> \o LedgerBlock(b),
     <<UnparseableVote(b)>> \o LedgerBlock(b)}

\* The answers of the node for the blocks it holds, each with what
\* extract_transactions makes of it.
Responses ==
    UNION {{[block_index |-> b, transactions |-> transactions,
             extracted |-> extract_transactions(b, BlockTime, transactions)]
              : transactions \in Served(b)}
             : b \in {h \in Slots : ~BlockMissing(h)}}

\* ------------------------------------------------------------------------
\* src/main.rs and the two background tasks.

\* mpsc::channel(1)
ChannelCapacity == 1
\* "Retry up to 3 times"
MaxRetries == 3

\* The tasks spawned whatever the flag says.
spawns_always(dry_flag) == TRUE

\* main: `if !args.dry { ... tokio::spawn ... }`
spawns(dry_flag) == ~dry_flag

\* The extractor started on the block after the watermark.
first_since_after(watermark) ==
    IF watermark = None THEN None ELSE Some(watermark[1] + 1)

\* main: `let mut last_known_block = last_known_block;` moved into the
\* extractor and passed as `&mut last_known_block` for since_block.
first_since(watermark) == watermark

\* main up to the spawning of the tasks, on the store as it is on disk.
Start(d) ==
    /\ dry' \in BOOLEAN
    /\ mPc' = "serving"
    /\ cancelled' = FALSE
    /\ ePc' = IF spawns(dry') THEN "connect" ELSE "unspawned"
    /\ since_block' = first_since(last_known_block(d))
    /\ restart_wm' = last_known_block(d)
    /\ next_block' = 0
    /\ retries' = 0
    /\ pending' = <<>>
    /\ chan' = <<>>
    /\ cPc' = IF spawns(dry') THEN "idle" ELSE "unspawned"
    /\ cRec' = None
    /\ cStep' = 0
    /\ attempts' = 0
    /\ failed_block' = None
    /\ emitted' = {}
    /\ sent' = <<>>
    /\ committed' = <<>>
    /\ first_fetched' = None
    /\ fetched' = {}
    /\ outcome' = "none"
    /\ received' = <<>>

Init ==
    /\ db = EmptyStore
    /\ nsaves = 0
    /\ saved = [k \in Kinds |-> {}]
    /\ last = [k \in Kinds |-> [s \in Signatures |-> None]]
    /\ op = NoOp
    /\ dry \in BOOLEAN
    /\ mPc = "serving"
    /\ cancelled = FALSE
    /\ ePc = IF spawns(dry) THEN "connect" ELSE "unspawned"
    /\ since_block = first_since(None)
    /\ restart_wm = None
    /\ next_block = 0
    /\ retries = 0
    /\ pending = <<>>
    /\ chan = <<>>
    /\ cPc = IF spawns(dry) THEN "idle" ELSE "unspawned"
    /\ cRec = None
    /\ cStep = 0
    /\ attempts = 0
    /\ failed_block = None
    /\ emitted = {}
    /\ crashes = 0
    /\ sent = <<>>
    /\ committed = <<>>
    /\ first_fetched = None
    /\ fetched = {}
    /\ outcome = "none"
    /\ received = <<>>

ExtractorEnded == ePc \in {"done", "gaveup", "panicked"}
CommitterEnded == cPc \in {"done", "cancelled", "failed"}

\* extract_continuously: one more failure than the bound ends the retries.
give_up_early(n) == n >= MaxRetries

\* extract_continuously: `retries > 3`
give_up(n) == n > MaxRetries

\* A retry policy that counts the failures of one block only: the counter
\* starts again when the failing block is another one.
AttemptFails_per_block(block) ==
    /\ retries' = IF block = failed_block THEN retries + 1 ELSE 1
    /\ ePc' = IF give_up(retries') THEN "gaveup" ELSE "connect"
    /\ failed_block' = block
    /\ pending' = <<>>

\* extract_continuously, the Err arm: do_extract_continuously failed while
\* processing `block` (None: before any block).
AttemptFails(block) ==
    /\ retries' = retries + 1
    /\ ePc' = IF give_up(retries + 1) THEN "gaveup" ELSE "connect"
    /\ failed_block' = block
    /\ pending' = <<>>

\* A checkpoint taken before the cursor moves.
checkpoint_before(block) == [next_block |-> block + 1, since_block |-> Some(block)]

\* do_extract_continuously: `next_block += 1; *since_block = Some(next_block)`
checkpoint(block) == [next_block |-> block + 1, since_block |-> Some(block + 1)]

\* do_extract_continuously up to the loop, the cursor taken from the checkpoint.
ExtractConnect ==
    /\ ePc = "connect"
    /\ since_block # None
    /\ attempts' = attempts + 1
    /\ next_block' = since_block[1]
    /\ ePc' = "fetch"
    /\ UNCHANGED <<storeVars, mPc, cancelled, since_block, retries, pending, chan, cPc,
                   cRec, cStep, failed_block, emitted, crashes, restart_wm, dry, sent,
                   committed, first_fetched, fetched, outcome, received>>

\* do_extract_continuously up to the loop, the cursor asked from the node.
ExtractConnectEpoch ==
    /\ ePc = "connect"
    /\ since_block = None
    /\ attempts' = attempts + 1
    /\ next_block' = EpochFirstSlot
    /\ ePc' = "fetch"
    /\ UNCHANGED <<storeVars, mPc, cancelled, since_block, retries, pending, chan, cPc,
                   cRec, cStep, failed_block, emitted, crashes, restart_wm, dry, sent,
                   committed, first_fetched, fetched, outcome, received>>

\* get_epoch_schedule or get_epoch_info fails: the attempt fails.
ExtractConnectEpochError ==
    /\ ePc = "connect"
    /\ since_block = None
    /\ attempts' = attempts + 1
    /\ AttemptFails(None)
    /\ UNCHANGED <<storeVars, mPc, cancelled, since_block, next_block, chan, cPc, cRec,
                   cStep, emitted, crashes, restart_wm, dry, sent, committed,
                   first_fetched, fetched, outcome, received>>

\* How extract_all_transactions_in_block ends once nothing is left to send:
\* Ok(()) takes the loop to the cancellation check; an error leaves
\* do_extract_continuously through `?` and fails the attempt; a panic ends
\* the task.
BlockEnds(result) ==
    CASE result = "ok" -> ePc' = "check" /\ UNCHANGED <<retries, failed_block>>
      [] result = "invalid" -> AttemptFails(Some(next_block))
      [] result = "panic" -> ePc' = "panicked" /\ UNCHANGED <<retries, failed_block>>

\* extract_all_transactions_in_block with the transactions the node
\* returned: extract_transactions runs up to its first send.
ExtractBlock(transactions, extracted) ==
    /\ first_fetched' = IF first_fetched = None THEN Some(next_block) ELSE first_fetched
    /\ fetched' = fetched \cup {next_block}
    /\ received' = transactions
    /\ outcome' = CASE extracted.result = "ok" -> "ok"
                     [] extracted.result = "err" -> "invalid"
                     [] extracted.result = "panic" -> "panic"
    /\ pending' = extracted.sends
    /\ IF extracted.sends = <<>> THEN BlockEnds(outcome')
       ELSE ePc' = "emit" /\ UNCHANGED <<retries, failed_block>>
    /\ UNCHANGED <<storeVars, mPc, cancelled, since_block, next_block, chan, cPc, cRec,
                   cStep, attempts, emitted, crashes, restart_wm, dry, sent, committed>>

\* extract_all_transactions_in_block: the block and its time are fetched.
ExtractFetchOk ==
    /\ ePc = "fetch"
    /\ next_block <= LastSlot
    /\ ~BlockMissing(next_block)
    /\ \E response \in Responses :
           /\ response.block_index = next_block
           /\ ExtractBlock(response.transactions, response.extracted)

\* No failed fetch is passed over.
skips_block_never(result) == FALSE

\* extract_all_transactions_in_block, the match on get_block_with_config:
\* the arm for code -32007 and the arm for any other Err both return Ok(()).
skips_block(result) == result \in {"missing", "error"}

\* extract_all_transactions_in_block: the node answers -32007.
ExtractFetchMissing ==
    /\ ePc = "fetch"
    /\ next_block <= LastSlot
    /\ first_fetched' = IF first_fetched = None THEN Some(next_block) ELSE first_fetched
    /\ fetched' = fetched \cup {next_block}
    /\ outcome' = "missing"
    /\ received' = <<>>
    /\ BlockMissing(next_block)
    /\ IF skips_block("missing")
       THEN ePc' = "check" /\ UNCHANGED <<retries, pending, failed_block>>
       ELSE AttemptFails(Some(next_block))
    /\ UNCHANGED <<storeVars, mPc, cancelled, since_block, next_block, chan, cPc, cRec,
                   cStep, attempts, emitted, crashes, restart_wm, dry, sent,
                   committed>>

\* extract_all_transactions_in_block: get_block_with_config fails with any
\* other error; the error is logged. The node has no other answer for the
\* height past the last block of the ledger.
ExtractFetchError ==
    /\ ePc = "fetch"
    /\ next_block <= LastSlot + 1
    /\ first_fetched' = IF first_fetched = None THEN Some(next_block) ELSE first_fetched
    /\ fetched' = fetched \cup {next_block}
    /\ outcome' = "error"
    /\ received' = <<>>
    /\ IF skips_block("error")
       THEN ePc' = "check" /\ UNCHANGED <<retries, pending, failed_block>>
       ELSE AttemptFails(Some(next_block))
    /\ UNCHANGED <<storeVars, mPc, cancelled, since_block, next_block, chan, cPc, cRec,
                   cStep, attempts, emitted, crashes, restart_wm, dry, sent,
                   committed>>

\* extract_all_transactions_in_block: get_block_time fails; `?` propagates.
ExtractBlockTimeError ==
    /\ ePc = "fetch"
    /\ next_block <= LastSlot
    /\ first_fetched' = IF first_fetched = None THEN Some(next_block) ELSE first_fetched
    /\ fetched' = fetched \cup {next_block}
    /\ outcome' = "no time"
    /\ received' = <<>>
    /\ ~BlockMissing(next_block)
    /\ AttemptFails(Some(next_block))
    /\ UNCHANGED <<storeVars, mPc, cancelled, since_block, next_block, chan, cPc, cRec,
                   cStep, attempts, emitted, crashes, restart_wm, dry, sent,
                   committed>>

\* A channel that always has room.
has_capacity_unbounded(queue) == TRUE

\* Sender::send: a permit is acquired only while the buffer of
\* mpsc::channel(1) has room.
has_capacity(queue) == Len(queue) < ChannelCapacity

\* emit_vote / emit_transfer: tx.send(..).await with the receiver alive; the
\* send waits while the channel is full.
ExtractEmit ==
    /\ ePc = "emit"
    /\ ~CommitterEnded
    /\ has_capacity(chan)
    /\ chan' = Append(chan, Head(pending))
    /\ sent' = Append(sent, Head(pending))
    /\ emitted' = emitted \cup {Head(pending)}
    /\ pending' = Tail(pending)
    /\ IF Tail(pending) = <<>> THEN BlockEnds(outcome)
       ELSE ePc' = "emit" /\ UNCHANGED <<retries, failed_block>>
    /\ UNCHANGED <<storeVars, mPc, cancelled, since_block, next_block, cPc, cRec,
                   cStep, attempts, crashes, restart_wm, dry, committed, first_fetched,
                   fetched, outcome, received>>

\* A send that keeps waiting for room although the receiver is gone.
send_waits(receiver_dropped) == FALSE

\* Sender::send returns Err once the receiver is dropped, also to a send
\* that was waiting for room.
send_closed(receiver_dropped) == receiver_dropped

\* emit_vote / emit_transfer: the receiver is gone, send returns an error
\* that is traced and dropped.
ExtractEmitClosed ==
    /\ ePc = "emit"
    /\ send_closed(CommitterEnded)
    /\ pending' = Tail(pending)
    /\ IF Tail(pending) = <<>> THEN BlockEnds(outcome)
       ELSE ePc' = "emit" /\ UNCHANGED <<retries, failed_block>>
    /\ UNCHANGED <<storeVars, mPc, cancelled, since_block, next_block, chan, cPc,
                   cRec, cStep, attempts, emitted, crashes, restart_wm, dry, sent,
                   committed, first_fetched, fetched, outcome, received>>

\* A token that never reads as cancelled.
is_cancelled_never(stop) == FALSE

\* do_extract_continuously: `if stop.is_cancelled() { break Ok(()); }`
is_cancelled(stop) == stop

\* do_extract_continuously after a block: stop.is_cancelled() holds.
ExtractStop ==
    /\ ePc = "check"
    /\ is_cancelled(cancelled)
    /\ ePc' = "done"
    /\ UNCHANGED <<storeVars, mPc, cancelled, since_block, next_block, retries,
                   pending, chan, cPc, cRec, cStep, attempts, failed_block, emitted,
                   crashes, restart_wm, dry, sent, committed, first_fetched, fetched,
                   outcome, received>>

\* do_extract_continuously after a block: on to the next one. The cursor
\* stops one height past the last block of the ledger.
ExtractAdvance ==
    /\ ePc = "check"
    /\ next_block <= LastSlot
    /\ ~is_cancelled(cancelled)
    /\ next_block' = checkpoint(next_block).next_block
    /\ since_block' = checkpoint(next_block).since_block
    /\ ePc' = "fetch"
    /\ UNCHANGED <<storeVars, mPc, cancelled, retries, pending, chan, cPc, cRec, cStep,
                   attempts, failed_block, emitted, crashes, restart_wm, dry, sent,
                   committed, first_fetched, fetched, outcome, received>>

\* store_all_records_from: the select is polled with the token cancelled.
CommitCancelled ==
    /\ cPc = "idle"
    /\ cancelled
    /\ cPc' = "cancelled"
    /\ UNCHANGED <<storeVars, mPc, cancelled, ePc, since_block, next_block, retries,
                   pending, chan, cRec, cStep, attempts, failed_block, emitted,
                   crashes, restart_wm, dry, sent, committed, first_fetched, fetched,
                   outcome, received>>

\* A select that may take the receiving branch whatever the token says.
poll_receives_unbiased(pc, stop) == TRUE

\* store_all_records_from: `select! { biased; _ = stop.cancelled() => ..,
\* _ = do_store_all_records_from(..) => .. }`. A suspended committer ("idle")
\* is polled through the select, which looks at the token first; inside
\* do_store_all_records_from ("loop", after a save) rx.recv() is polled
\* without another look at the token.
poll_receives(pc, stop) == pc = "loop" \/ ~stop

\* A receive that leaves the record in the channel.
recv_keeping(queue) == [record |-> Head(queue), rest |-> queue]

\* Receiver::recv on a channel that holds a record: the oldest one is taken.
recv(queue) == [record |-> Head(queue), rest |-> Tail(queue)]

\* do_store_all_records_from: rx.recv() yields a record, which is passed to
\* save_vote / save_transfer.
CommitRecv ==
    /\ cPc \in {"idle", "loop"}
    /\ poll_receives(cPc, cancelled)
    /\ chan # <<>>
    /\ cRec' = Some(recv(chan).record)
    /\ chan' = recv(chan).rest
    /\ committed' = Append(committed, recv(chan).record)
    /\ cStep' = 1
    /\ cPc' = "save"
    /\ UNCHANGED <<storeVars, mPc, cancelled, ePc, since_block, next_block, retries,
                   pending, attempts, failed_block, emitted, crashes, restart_wm, dry,
                   sent, first_fetched, fetched, outcome, received>>

\* do_store_all_records_from: rx.recv() finds nothing and the task suspends.
CommitWait ==
    /\ cPc = "loop"
    /\ chan = <<>>
    /\ ~ExtractorEnded
    /\ cPc' = "idle"
    /\ UNCHANGED <<storeVars, mPc, cancelled, ePc, since_block, next_block, retries,
                   pending, chan, cRec, cStep, attempts, failed_block, emitted,
                   crashes, restart_wm, dry, sent, committed, first_fetched, fetched,
                   outcome, received>>

\* A receive that reports the closure as soon as the sender is dropped.
recv_none_on_drop(queue, sender_dropped) == sender_dropped

\* Receiver::recv yields None once the sender is dropped and the buffer is
\* empty: `while let Some(record) = rx.recv().await` then ends.
recv_none(queue, sender_dropped) == queue = <<>> /\ sender_dropped

\* do_store_all_records_from: rx.recv() yields None, the sender was dropped.
CommitClosed ==
    /\ cPc \in {"idle", "loop"}
    /\ poll_receives(cPc, cancelled)
    /\ recv_none(chan, ExtractorEnded)
    /\ cPc' = "done"
    /\ UNCHANGED <<storeVars, mPc, cancelled, ePc, since_block, next_block, retries,
                   pending, chan, cRec, cStep, attempts, failed_block, emitted,
                   crashes, restart_wm, dry, sent, committed, first_fetched, fetched,
                   outcome, received>>

StepsOf(item) == IF item.kind = "vote" THEN VoteSteps ELSE TransferSteps

WriteOf(d, item, i) ==
    IF item.kind = "vote" THEN save_vote_step(d, item.record, i)
    ELSE save_transfer_step(d, item.record, i)

\* Store::save_vote / save_transfer called by the committer: the next write.
CommitWrite ==
    /\ cPc = "save"
    /\ db' = WriteOf(db, cRec[1], cStep)
    /\ IF cStep = StepsOf(cRec[1])
       THEN cPc' = "loop" /\ cRec' = None /\ cStep' = 0
       ELSE cPc' = "save" /\ cRec' = cRec /\ cStep' = cStep + 1
    /\ UNCHANGED <<nsaves, saved, last, op, mPc, cancelled, ePc, since_block,
                   next_block, retries, pending, chan, attempts, failed_block, emitted,
                   crashes, restart_wm, dry, sent, committed, first_fetched, fetched,
                   outcome, received>>

\* A committer that logs the error and goes on with the next record.
on_save_error_continue(pc) == "loop"

\* do_store_all_records_from: `if let Err(e) = result { error!(..); return; }`
on_save_error(pc) == "failed"

\* Store::save_vote / save_transfer: the next write fails, the save returns
\* the error and do_store_all_records_from returns.
CommitWriteFail ==
    /\ cPc = "save"
    /\ cStep = 1 => cRec[1].record.block_index > unwrap_or(last_known_block(db), 0)
    /\ cPc' = on_save_error(cPc)
    /\ cRec' = None
    /\ cStep' = 0
    /\ UNCHANGED <<storeVars, mPc, cancelled, ePc, since_block, next_block, retries,
                   pending, chan, attempts, failed_block, emitted, crashes, restart_wm,
                   dry, sent, committed, first_fetched, fetched, outcome, received>>

\* main: serve_forever returns, stop.cancel().
Interrupt ==
    /\ mPc = "serving"
    /\ cancelled' = TRUE
    /\ mPc' = "joining"
    /\ UNCHANGED <<storeVars, ePc, since_block, next_block, retries, pending, chan,
                   cPc, cRec, cStep, attempts, failed_block, emitted, crashes,
                   restart_wm, dry, sent, committed, first_fetched, fetched, outcome, received>>

\* main: serve_forever returns an error and `?` returns it from main at
\* once; the runtime is dropped with main and takes the running tasks, the
\* channel and everything the tasks held in memory with it.
ServeError ==
    /\ mPc = "serving"
    /\ mPc' = "error"
    /\ ePc' = IF ePc \in {"done", "gaveup", "panicked", "unspawned"} THEN ePc
              ELSE "killed"
    /\ cPc' = IF cPc \in {"done", "cancelled", "failed", "unspawned"} THEN cPc
              ELSE "killed"
    /\ since_block' = None
    /\ next_block' = 0
    /\ pending' = <<>>
    /\ chan' = <<>>
    /\ cRec' = None
    /\ cStep' = 0
    /\ failed_block' = None
    /\ emitted' = {}
    /\ sent' = <<>>
    /\ committed' = <<>>
    /\ first_fetched' = None
    /\ fetched' = {}
    /\ outcome' = "none"
    /\ received' = <<>>
    /\ UNCHANGED <<storeVars, cancelled, retries, attempts, crashes, restart_wm, dry>>

\* main: every spawned task is joined; `tasks` is empty in a dry run.
Join ==
    /\ mPc = "joining"
    /\ spawns(dry) => ExtractorEnded /\ CommitterEnded
    /\ mPc' = "stopped"
    /\ UNCHANGED <<storeVars, cancelled, ePc, since_block, next_block, retries,
                   pending, chan, cPc, cRec, cStep, attempts, failed_block, emitted,
                   crashes, restart_wm, dry, sent, committed, first_fetched, fetched,
                   outcome, received>>

\* The process stops wherever it is and is started again on the same store.
Crash ==
    /\ crashes < MaxCrashes
    /\ crashes' = crashes + 1
    /\ Start(db)
    /\ UNCHANGED storeVars

Next ==
    \/ ExtractConnect
    \/ ExtractConnectEpoch
    \/ ExtractConnectEpochError
    \/ ExtractFetchOk
    \/ ExtractFetchMissing
    \/ ExtractFetchError
    \/ ExtractBlockTimeError
    \/ ExtractEmit
    \/ ExtractEmitClosed
    \/ ExtractStop
    \/ ExtractAdvance
    \/ CommitCancelled
    \/ CommitRecv
    \/ CommitWait
    \/ CommitClosed
    \/ CommitWrite
    \/ CommitWriteFail
    \/ Interrupt
    \/ ServeError
    \/ Join
    \/ Crash

Spec == Init /\ [][Next]_vars

\* ------------------------------------------------------------------------
\* The running process under the scheduling of the runtime: a task that can
\* take a step is polled, and a call to the node returns. The process is not
\* stopped from outside.

\* A step of the task running extract_continuously.
ExtractorStep ==
    \/ ExtractConnect
    \/ ExtractConnectEpoch
    \/ ExtractConnectEpochError
    \/ ExtractFetchOk
    \/ ExtractFetchMissing
    \/ ExtractFetchError
    \/ ExtractBlockTimeError
    \/ ExtractEmit
    \/ ExtractEmitClosed
    \/ ExtractStop
    \/ ExtractAdvance

\* A step of the task running store_all_records_from.
CommitterStep ==
    \/ CommitCancelled
    \/ CommitRecv
    \/ CommitWait
    \/ CommitClosed
    \/ CommitWrite
    \/ CommitWriteFail

NextLive ==
    \/ ExtractorStep
    \/ CommitterStep
    \/ Interrupt
    \/ ServeError
    \/ Join

SpecLive ==
    Init /\ [][NextLive]_vars /\ WF_vars(ExtractorStep) /\ WF_vars(CommitterStep)

\* ------------------------------------------------------------------------
\* The extraction of one block, whatever it holds.

\* The instructions a transaction of the blocks below is made of.
GoodVote ==
    VoteInstruction(Address(Wide(9, 9, KeyLen)), Address(Wide(2, 7, KeyLen)))
GoodTransfer ==
    TransferInstruction(Address(Wide(2, 7, KeyLen)), Address(Wide(9, 9, KeyLen)),
                        JNumber(2))
\* An address of the wrong length: base58 of a single byte.
ShortAddress == JString(to_string(<<5>>))

TestInstructions ==
    {GoodVote,
     GoodTransfer,
     [GoodVote EXCEPT !.form = "partially decoded"],
     [GoodTransfer EXCEPT !.form = "compiled"],
     [GoodVote EXCEPT !.program_id = "ComputeBudget111111111111111111111111111111"],
     [GoodVote EXCEPT !.parsed = JNull],
     [GoodVote EXCEPT !.parsed = JObject([type |-> JNull])],
     [GoodTransfer EXCEPT !.parsed = JObject([info |-> JNumber(1)])],
     [GoodVote EXCEPT !.parsed =
         JObject([info |-> JObject([voteAuthority |-> Address(Wide(2, 7, KeyLen))])])],
     VoteInstruction(Address(Wide(9, 9, KeyLen)), JNumber(1)),
     VoteInstruction(JString(NotBase58), Address(Wide(2, 7, KeyLen))),
     VoteInstruction(Address(Wide(9, 9, KeyLen)), ShortAddress),
     [GoodTransfer EXCEPT !.parsed =
         JObject([info |-> JObject([source |-> Address(Wide(2, 7, KeyLen)),
                                    destination |-> Address(Wide(9, 9, KeyLen))])])],
     TransferInstruction(Address(Wide(2, 7, KeyLen)), Address(Wide(9, 9, KeyLen)),
                         JString(<<50>>)),
     TransferInstruction(Address(Wide(2, 7, KeyLen)), Address(Wide(9, 9, KeyLen)),
                         JNumber(-1)),
     TransferInstruction(JString(NotBase58), Address(Wide(9, 9, KeyLen)), JNumber(2)),
     TransferInstruction(Address(Wide(2, 7, KeyLen)), JNull, JNumber(2)),
     TransferInstruction(Address(Wide(2, 7, KeyLen)), ShortAddress, JNumber(2))}

\* The transactions that may stand at place i of a block: the i-th
\* signature with one instruction, or with a vote followed by another
\* instruction, and the transactions that have no usable signature, message
\* or encoding.
TestTransactions(i) ==
    LET signature == to_string(TxSignature(EpochFirstSlot, i))
    IN  {JsonTransaction(<<signature>>, <<instruction>>) :
             instruction \in TestInstructions}
        \cup {JsonTransaction(<<signature>>, <<GoodVote, instruction>>) :
                  instruction \in {GoodTransfer,
                                   VoteInstruction(JString(NotBase58),
                                                   Address(Wide(2, 7, KeyLen))),
                                   TransferInstruction(Address(Wide(2, 7, KeyLen)),
                                                       JNull, JNumber(2))}}
        \cup {BinaryTransaction,
              UnsignedTransaction,
              JsonTransaction(<<NotBase58>>, <<GoodVote>>),
              JsonTransaction(<<signature, NotBase58>>, <<GoodTransfer>>),
              [JsonTransaction(<<signature>>, <<GoodVote>>)
                  EXCEPT !.message.form = "raw"]}

\* The longest block.
MaxTxs == 2

\* The blocks of n transactions.
RECURSIVE BlocksOf(_)
BlocksOf(n) ==
    IF n = 0 THEN {<<>>}
    ELSE {Append(transactions, last_one) :
              transactions \in BlocksOf(n - 1), last_one \in TestTransactions(n)}

\* The blocks of one to n transactions.
TestBlocks(n) == UNION {BlocksOf(k) : k \in 1..n}

\* A running process whose Extractor has asked for the first block of the
\* epoch; `received` is what the node answers.
InitExtract ==
    /\ db = EmptyStore
    /\ nsaves = 0
    /\ saved = [k \in Kinds |-> {}]
    /\ last = [k \in Kinds |-> [s \in Signatures |-> None]]
    /\ op = NoOp
    /\ dry = FALSE
    /\ mPc = "serving"
    /\ cancelled = FALSE
    /\ ePc = "fetch"
    /\ since_block = None
    /\ restart_wm = None
    /\ next_block = EpochFirstSlot
    /\ retries = 0
    /\ pending = <<>>
    /\ chan = <<>>
    /\ cPc = "idle"
    /\ cRec = None
    /\ cStep = 0
    /\ attempts = 1
    /\ failed_block = None
    /\ emitted = {}
    /\ crashes = 0
    /\ sent = <<>>
    /\ committed = <<>>
    /\ first_fetched = None
    /\ fetched = {}
    /\ outcome = "none"
    /\ received \in TestBlocks(MaxTxs)

\* extract_all_transactions_in_block on the answer of the node.
ExtractGiven ==
    /\ ePc = "fetch"
    /\ fetched = {}
    /\ ExtractBlock(received,
                    extract_transactions(next_block, BlockTime, received))

NextExtract ==
    \/ ExtractGiven
    \/ ExtractEmit
    \/ ExtractAdvance
    \/ CommitRecv
    \/ CommitWrite

SpecExtract == InitExtract /\ [][NextExtract]_vars

\* ------------------------------------------------------------------------
\* Helpers of the properties.

Range(seq) == {seq[i] : i \in 1..Len(seq)}

\* The signatures of a kind whose latest save carries block_index b.
StoredAt(kind, b) ==
    {s \in Signatures : last[kind][s] # None /\ last[kind][s][1].block_index = b}

\* Option<u64> ordered with None below every Some.
OptLeq(a, b) == a = None \/ (b # None /\ a[1] <= b[1])

Max(S) == CHOOSE m \in S : \A x \in S : x <= m

\* The index keys Store::save_* writes for a record.
IndexKeys(kind, r) ==
    IF kind = "vote"
    THEN {varint(r.block_index) \o r.signature, r.target \o r.signature,
          r.author \o r.signature}
    ELSE {varint(r.block_index) \o r.signature, r.source \o r.signature,
          r.destination \o r.signature, varint(r.lamports) \o r.signature}

IndexNs(kind) == IF kind = "vote" THEN VOTES_INDEX_NS ELSE TRANSFERS_INDEX_NS
PrimaryNs(kind) == IF kind = "vote" THEN VOTES_NS ELSE TRANSFERS_NS

\* ------------------------------------------------------------------------
\* C1. Round-trip: once a record has been saved, find_vote / find_transfer by
\* its signature returns a value equal to it in every field, for as long as
\* that signature is not saved again in the same kind.
C1_RoundTrip ==
    \A s \in Signatures :
        /\ last["vote"][s] # None => find_vote(db, s) = last["vote"][s]
        /\ last["transfer"][s] # None => find_transfer(db, s) = last["transfer"][s]

\* C2. Watermark monotonicity: no save makes last_known_block() decrease, and
\* a save of a record whose block_index is at most the current watermark
\* leaves the watermark unchanged.
C2_WatermarkMonotone ==
    [][/\ OptLeq(last_known_block(db), last_known_block(db'))
       /\ (op'.kind # "none" /\ last_known_block(db) # None
             /\ op'.record.block_index <= last_known_block(db)[1])
            => last_known_block(db') = last_known_block(db)]_vars

\* A record was saved below a watermark that an earlier save had set.
C2_Witness ==
    /\ op.kind # "none"
    /\ op.before # None
    /\ op.record.block_index < op.before[1]
    /\ last_known_block(db) = op.before

\* C3. Watermark value: none before any save, and after any saves the maximum
\* block_index over all records saved so far, for every block_index >= 0.
C3_WatermarkIsMax ==
    IF nsaves = 0 THEN last_known_block(db) = None
    ELSE last_known_block(db)
           = Some(Max({r.block_index : r \in saved["vote"] \cup saved["transfer"]}))

\* C4. Kind isolation: the vote queries return only records that were saved
\* with save_vote and the transfer queries only records saved with
\* save_transfer, also when both kinds hold the same signature.
C4_KindIsolation ==
    /\ \A s \in Signatures :
        /\ Range(find_vote(db, s)) \subseteq saved["vote"]
        /\ Range(find_transfer(db, s)) \subseteq saved["transfer"]
    /\ Range(find_all_votes(db)) \subseteq saved["vote"]
    /\ Range(find_all_transfers(db)) \subseteq saved["transfer"]
    /\ \A b \in Blocks :
        /\ Range(find_votes_by_block_index(db, b)) \subseteq saved["vote"]
        /\ Range(find_transfers_by_block_index(db, b)) \subseteq saved["transfer"]

\* C5. Index completeness and exactness: a block-index lookup for B resolves
\* exactly the stored records whose block_index is B, each exactly once, and
\* none whose block_index differs (records identified by their primary key).
C5_IndexExact ==
    \A kind \in Kinds : \A b \in Blocks :
        LET hits == index_hits(db, IndexNs(kind), b)
        IN  /\ Range(hits) = StoredAt(kind, b)
            /\ Len(hits) = Cardinality(StoredAt(kind, b))

\* C6. Idempotence of save: saving again the record that is already stored
\* under its signature leaves the whole store as it was: the primary row, the
\* index entries and the watermark.
C6_SaveIdempotent ==
    [][(op'.kind # "none" /\ nsaves' = nsaves + 1
          /\ last[op'.kind][op'.record.signature] = Some(op'.record))
         => db' = db]_vars

\* The same record was saved twice under its signature.
C6_Witness ==
    /\ op.kind # "none"
    /\ op.again
    /\ \E p \in db[PrimaryNs(op.kind)] : p[1] = op.record.signature
    /\ IndexKeys(op.kind, op.record) \subseteq {p[1] : p \in db[IndexNs(op.kind)]}

\* C7. Upsert in place: after a signature is saved again with any field
\* values there is one primary row for it, every index entry that points to
\* it is an entry of the stored record, and no block-index lookup resolves
\* the signature more than once.
C7_UpsertInPlace ==
    \A kind \in Kinds : \A s \in Signatures :
        last[kind][s] # None =>
            /\ Cardinality({p \in db[PrimaryNs(kind)] : p[1] = s}) = 1
            /\ \A p \in db[IndexNs(kind)] :
                p[2] = s => p[1] \in IndexKeys(kind, last[kind][s][1])
            /\ \A b \in Blocks :
                Cardinality({i \in DOMAIN index_hits(db, IndexNs(kind), b) :
                                index_hits(db, IndexNs(kind), b)[i] = s}) <= 1

\* ------------------------------------------------------------------------
\* Properties of the pipeline.

\* C8 as stated. Bounded retry: extract_continuously makes exactly 4 attempts
\* when they keep failing and never a 5th, and its stopping terminates
\* neither the process nor the Committer.
C8_BoundedRetryKeepsCommitter ==
    /\ attempts <= MaxRetries + 1
    /\ ePc = "gaveup" => attempts = MaxRetries + 1 /\ mPc # "stopped"
    /\ (ePc = "gaveup" /\ ~cancelled) => cPc # "done"

\* C8 as amended. Bounded retry: extract_continuously makes exactly 4
\* attempts when they keep failing, never a 5th, and then stays stopped; the
\* stopping step changes neither main, nor the store, nor the Committer's
\* position, and afterwards the Committer ends on the closed channel only
\* once the channel is empty.
C8_BoundedRetry ==
    [][/\ attempts' <= MaxRetries + 1
       /\ ePc' = "gaveup" => (attempts' = MaxRetries + 1 /\ retries' = MaxRetries + 1)
       /\ (ePc # "gaveup" /\ ePc' = "gaveup")
            => (mPc' = mPc /\ cPc' = cPc /\ db' = db /\ chan' = chan)
       /\ (ePc = "gaveup" /\ crashes' = crashes)
            => (ePc' = "gaveup" /\ attempts' = attempts)
       /\ (ePc = "gaveup" /\ cPc # "done" /\ cPc' = "done") => chan = <<>>]_vars

\* The extractor gave up after its fourth attempt, the process keeps serving
\* and the Committer has ended on the closed channel.
C8_Witness ==
    /\ ePc = "gaveup"
    /\ attempts = MaxRetries + 1
    /\ mPc = "serving"
    /\ ~cancelled
    /\ cPc = "done"

\* C9. Retry resumes from the checkpoint: after an attempt failed while
\* processing block B with a checkpoint in place, the next attempt starts at
\* block B, neither lower nor higher.
C9_ResumeFromCheckpoint ==
    [][(ePc = "connect" /\ ePc' = "fetch" /\ failed_block # None
          /\ since_block # None /\ crashes' = crashes)
         => next_block' = failed_block[1]]_vars

\* An attempt failed at a block past the first one and the next attempt is
\* about to fetch that block again.
C9_Witness ==
    /\ ePc = "fetch"
    /\ attempts >= 2
    /\ crashes = 0
    /\ failed_block # None
    /\ failed_block[1] > EpochFirstSlot
    /\ next_block = failed_block[1]

\* C10. At-least-once across restart: after the process was started again
\* with the cursor taken from the stored watermark W, the extractor, with the
\* Committer running, does not move past block W before every record of
\* block W was sent again (so that none of them is lost for good).
C10_AtLeastOnceAcrossRestart ==
    (/\ crashes > 0
     /\ restart_wm # None
     /\ ePc \in {"fetch", "emit", "check"}
     /\ ~CommitterEnded
     /\ next_block > restart_wm[1])
        => Range(BlockRecords(restart_wm[1])) \subseteq emitted

\* ------------------------------------------------------------------------
\* Claims about the channel and the two tasks.

\* C11. Backpressure: the channel never holds more than one record, and the
\* send of a record completes only when every record sent before it has
\* been received by the Committer.
C11_Backpressure ==
    [][/\ Len(chan') <= 1
       /\ Len(sent') > Len(sent) => Len(committed) = Len(sent)]_vars

\* The Extractor has the second record of a block ready while the first one
\* is still in the channel: its send is suspended.
C11_Witness ==
    /\ ePc = "emit"
    /\ pending # <<>>
    /\ Len(chan) = ChannelCapacity
    /\ Len(sent) = Len(committed) + 1
    /\ ~CommitterEnded

\* C12. Commit order: the records the Committer passes to a save are, in
\* order, the first records sent on the channel; no record is skipped, none
\* is passed twice unless it was sent twice, and the records sent but not yet
\* passed to a save are exactly the content of the channel.
C12_CommitOrder ==
    /\ Len(committed) <= Len(sent)
    /\ committed = SubSeq(sent, 1, Len(committed))
    /\ sent = committed \o chan

\* Both records of a block were passed to a save in the order they were
\* sent, the second save is under way and a third record is waiting.
C12_Witness ==
    /\ Len(committed) = 2
    /\ committed[1].kind = "vote"
    /\ committed[2].kind = "transfer"
    /\ cPc = "save"
    /\ cRec = Some(committed[2])
    /\ Len(sent) = 3

\* C13. Committer cancellation priority: while the Committer is suspended in
\* its receive with the cancellation signal set and a record in the channel,
\* its next step is the cancellation branch; it neither receives nor saves
\* that record, which stays in the channel, and the store is left alone.
C13_CancelWins ==
    [][(cPc = "idle" /\ cancelled /\ chan # <<>> /\ crashes' = crashes)
         => /\ cPc' \in {"idle", "cancelled"}
            /\ chan' = chan
            /\ committed' = committed
            /\ cRec' = None
            /\ db' = db]_vars

\* The Committer left through the cancellation branch with a record still
\* in the channel.
C13_Witness ==
    /\ cPc = "cancelled"
    /\ cancelled
    /\ chan # <<>>
    /\ Len(committed) < Len(sent)

\* C14. Coordinated shutdown: whenever main has left the foreground read
\* API, by its normal return or by an error, the cancellation signal is set
\* and every spawned task has run to its end before the process exits.
C14_CoordinatedShutdown ==
    mPc \in {"stopped", "error"}
        => /\ cancelled
           /\ ePc \in {"done", "gaveup", "unspawned"}
           /\ cPc \in {"done", "cancelled", "failed", "unspawned"}

\* ------------------------------------------------------------------------
\* Claims about the read API.

\* The records of a kind the store holds: the latest saved under each key.
Stored(kind) == {last[kind][s][1] : s \in {t \in Signatures : last[kind][t] # None}}

\* A stored record matches every filter supplied, an absent one matching all.
Matches(kind, r, filters) ==
    /\ filters.signature # None => to_string(r.signature) = filters.signature[1]
    /\ filters.block # None => r.block_index = filters.block[1]
    /\ filters.to # None
         => to_string(IF kind = "vote" THEN r.target ELSE r.destination) = filters.to[1]
    /\ filters.from # None
         => to_string(IF kind = "vote" THEN r.author ELSE r.source) = filters.from[1]

FullScanCriteria ==
    {f \in Criteria :
        /\ ~(f.signature # None /\ f.block = None /\ f.to = None /\ f.from = None)
        /\ ~(f.signature = None /\ f.block # None /\ f.to = None /\ f.from = None)}

\* C15. Conjunctive filtering: for every combination of the filters
\* signature, block, to, from other than signature alone and block alone,
\* get_votes / get_transfers returns exactly the stored records of the kind
\* that match every supplied filter, each once.
C15_ConjunctiveFiltering ==
    \A f \in FullScanCriteria :
        LET votes == get_votes(db, f)
            transfers == get_transfers(db, f)
        IN  /\ votes.ok /\ transfers.ok
            /\ Range(votes.rows) = {r \in Stored("vote") : Matches("vote", r, f)}
            /\ Range(transfers.rows)
                 = {r \in Stored("transfer") : Matches("transfer", r, f)}
            /\ Len(votes.rows) = Cardinality(Range(votes.rows))
            /\ Len(transfers.rows) = Cardinality(Range(transfers.rows))

\* ------------------------------------------------------------------------
\* Claims about the orchestration and the extraction loop.

\* The state of a dry run: no task exists, the node was never asked and
\* nothing was sent.
DryIdle ==
    /\ ePc = "unspawned"
    /\ cPc = "unspawned"
    /\ attempts = 0
    /\ first_fetched = None
    /\ fetched = {}
    /\ outcome = "none"
    /\ received = <<>>
    /\ sent = <<>>
    /\ chan = <<>>

\* C16. Dry mode frame: in a process started with the dry flag neither task
\* is spawned, no call to the node is made and no step changes the store;
\* when it shuts down there is no task left to await.
C16_DryFrame ==
    [][/\ dry => (DryIdle /\ db' = db)
       /\ dry' => DryIdle']_vars

\* A dry run on a store filled by an earlier run has shut down through the
\* join loop with the store as it found it.
C16_Witness ==
    /\ dry
    /\ mPc = "stopped"
    /\ crashes = 1
    /\ restart_wm # None
    /\ last_known_block(db) = restart_wm
    /\ db[VOTES_NS] # {}

\* A step in which a get_block_with_config call returns.
FetchStep == ePc = "fetch" /\ ePc' \notin {"fetch", "killed"} /\ crashes' = crashes

\* C17. Fetch-error propagation: when the fetch of block B fails with an
\* error other than "block not available", the per-block loop is left and
\* the attempt fails: the retry counter goes up by one, the extractor goes
\* back to the retry policy and the cursor and the checkpoint stay at B.
C17_FetchErrorPropagates ==
    [][(FetchStep /\ outcome' = "error")
         => /\ retries' = retries + 1
            /\ ePc' \in {"connect", "gaveup"}
            /\ failed_block' = Some(next_block)
            /\ next_block' = next_block
            /\ since_block' = since_block]_vars

C19_InitialCursorAfterWatermark ==
    first_fetched # None
        => first_fetched[1]
             = (IF restart_wm = None THEN EpochFirstSlot ELSE restart_wm[1] + 1)

\* C19 as amended. Initial cursor: started on a store with watermark W, the
\* first block the Extractor fetches is W itself; started on a store without
\* a watermark, it is the first slot of the current epoch.
C19_InitialCursor ==
    first_fetched # None
        => first_fetched[1]
             = (IF restart_wm = None THEN EpochFirstSlot ELSE restart_wm[1])

\* A process started again on a store whose watermark is past the first slot
\* of the epoch has made its first fetch, of the watermark block.
C19_Witness ==
    /\ crashes = 1
    /\ restart_wm # None
    /\ restart_wm[1] > EpochFirstSlot
    /\ first_fetched = restart_wm

\* C20. Checkpoint only after successful emit: the cursor and the checkpoint
\* move past a fetched block B only if every record extracted from B was
\* placed on the channel; after a send that did not succeed they stay at B.
C20_CheckpointAfterEmit ==
    [][(ePc = "check" /\ outcome = "ok" /\ crashes' = crashes
          /\ (next_block' > next_block \/ since_block' # since_block))
         => \A i \in 1..Len(BlockRecords(next_block)) :
                BlockRecords(next_block)[i] \in Range(sent)]_vars

\* C21. Strictly increasing heights: over all attempts of one Extractor,
\* each height passed to the block fetch is greater than every height fetched
\* before it.
C21_StrictlyIncreasingHeights ==
    [][FetchStep => \A h \in fetched : next_block > h]_vars

\* C21 as amended. Heights never go back: a height passed to the block fetch
\* is at least every height fetched before it, and it equals an earlier one
\* only when it is the height fetched last and the attempt that fetched it
\* failed (the next attempt starts again at that block).
C21_HeightsNeverDecrease ==
    [][FetchStep
         => /\ \A h \in fetched : next_block >= h
            /\ next_block \in fetched => outcome \notin {"ok", "missing", "error"}]_vars

\* A block has been fetched a second time: its first fetch failed, the retry
\* counter went up and the new attempt has fetched the same height.
C21_Witness ==
    /\ retries = 1
    /\ ePc \in {"emit", "check"}
    /\ next_block \in fetched
    /\ since_block = Some(next_block)
    /\ attempts = 2

\* C22. Extractor cancellation boundary: once the cancellation signal is
\* set, the block in progress is completed and the Extractor ends; it does
\* not go back to the retry policy, the retry counter is not incremented and
\* it does not give up with an error.
C22_CancellationBoundary ==
    [][(cancelled /\ ePc \in {"fetch", "emit", "check"} /\ crashes' = crashes)
         => (retries' = retries /\ ePc' \notin {"connect", "gaveup"})]_vars

\* C22 as amended. The Extractor ends cleanly only at the end of a block and
\* only when the signal is set, without touching the retry counter; with the
\* signal set, a block that has finished is the last one (the Extractor ends
\* there) and the cursor and the checkpoint no longer move.
C22_CancellationAfterBlock ==
    [][crashes' = crashes
         => /\ (ePc # "done" /\ ePc' = "done")
                 => (ePc = "check" /\ cancelled /\ retries' = retries)
            /\ (cancelled /\ ePc = "check" /\ ePc' # ePc) => ePc' = "done"
            /\ (cancelled /\ ePc \in {"fetch", "emit", "check", "done"})
                 => (next_block' = next_block /\ since_block' = since_block)]_vars

\* The signal is set and the Extractor has ended at the end of a block, one
\* that an earlier attempt failed on and that was fetched again.
C22_Witness ==
    /\ cancelled
    /\ ePc = "done"
    /\ retries = 1
    /\ failed_block = Some(next_block)
    /\ next_block \in fetched

\* A save called by the Committer returns an error: the record in hand is
\* dropped before the last write of its save was made.
SaveError ==
    /\ cPc = "save"
    /\ cRec' = None
    /\ ~(cStep = StepsOf(cRec[1]) /\ db' = WriteOf(db, cRec[1], cStep))
    /\ mPc' = mPc
    /\ crashes' = crashes

\* C23. Committer fail-stop: when a save returns an error the Committer
\* terminates at once, without another write for the failed record; the
\* failure leaves the cancellation signal, the Extractor and the channel as
\* they are; and a Committer that has failed receives no further record and
\* writes nothing more, so the records the Extractor sends later are never
\* committed.
C23_CommitterFailStop ==
    [][/\ SaveError
            => (cPc' = "failed" /\ db' = db /\ cancelled' = cancelled
                  /\ ePc' = ePc /\ chan' = chan /\ retries' = retries)
       /\ (cPc = "failed" /\ crashes' = crashes)
            => (cPc' = "failed" /\ db' = db /\ cRec' = None
                  /\ Len(committed') <= Len(committed))]_vars

\* The Committer has failed on the first record of block 1; the signal is
\* not set and the Extractor has gone on to block 3, the records it emitted
\* since are not in the store.
C23_Witness ==
    /\ cPc = "failed"
    /\ ~cancelled
    /\ mPc = "serving"
    /\ ePc = "fetch"
    /\ next_block = 3
    /\ Len(committed) = 1
    /\ db[VOTES_NS] = {}
    /\ db[TRANSFERS_NS] = {}

\* C24. Drain on channel closure: when the Extractor has ended while the
\* signal is not set and no save has failed, the Committer ends normally
\* only after it has received and saved every record that was sent on the
\* channel, the one still queued when the sender was dropped included.
C24_DrainOnClosure ==
    /\ cPc = "done"
         => /\ ExtractorEnded
            /\ chan = <<>>
            /\ cRec = None
            /\ committed = sent
            /\ \A i \in 1..Len(sent) :
                   get_cf(db, PrimaryNs(sent[i].kind), ser_array(sent[i].record.signature))
                       # None
    /\ (ExtractorEnded /\ ~cancelled /\ cPc \in {"idle", "loop", "save", "done"})
         => sent = committed \o chan

\* The Extractor has given up and the signal is not set; the Committer has
\* saved the two records that were sent and has ended normally.
C24_Witness ==
    /\ cPc = "done"
    /\ ePc = "gaveup"
    /\ ~cancelled
    /\ Len(committed) = 2
    /\ db[TRANSFERS_NS] # {}

\* The answer of the node to the first fetch is handled.
GivenStep == ePc = "fetch" /\ fetched = {} /\ fetched' # {}

\* How extract_all_transactions_in_block is recorded to end.
OutcomeOf(result) ==
    CASE result = "ok" -> "ok" [] result = "err" -> "invalid" [] result = "panic" -> "panic"

\* C26. Malformed on-chain data never aborts the pipeline: once a block has
\* been fetched, whatever it holds, the Extractor sends what it extracts and
\* comes to the end of the block without an error: the retry counter stays
\* as it is and the task neither goes back to the retry policy nor ends.
C26_MalformedDataNeverAborts ==
    [][(ePc \in {"fetch", "emit"} /\ outcome' \in {"ok", "invalid", "panic"}
          /\ crashes' = crashes /\ mPc' # "error")
         => (retries' = retries /\ ePc' \in {"emit", "check"})]_vars

\* A transaction the skip rules name: not in the JSON form, without a
\* signature (none, or a first one that does not parse), or with a message
\* that is not in the parsed form.
Skipped(transaction) ==
    \/ transaction.encoding # "json"
    \/ transaction.signatures = <<>>
    \/ from_str(transaction.signatures[1], SigLen) = None
    \/ transaction.message.form # "parsed"

\* C27. Transaction skip rules: the transactions the rules name are skipped:
\* the block is extracted as the same block without them is, with the same
\* records sent in the same order and the same end, and no task failure.
C27_TransactionSkipRules ==
    [][GivenStep
         => LET kept == Filter(received,
                               [i \in 1..Len(received) |-> ~Skipped(received[i])])
                expected == extract_transactions(next_block, BlockTime, kept)
            IN  /\ pending' = expected.sends
                /\ outcome' = OutcomeOf(expected.result)
                /\ outcome' # "panic"]_vars

\* The fields emit_vote / emit_transfer require and their JSON types.
RequiredFields(instruction) ==
    IF instruction.program_id = VOTE_PROGRAM THEN {"voteAccount", "voteAuthority"}
    ELSE {"source", "destination", "lamports"}

FieldType(name) == IF name = "lamports" THEN "number" ELSE "string"

\* The `info` object of the payload of an instruction, if it has one.
InfoOf(instruction) ==
    IF instruction.parsed.t = "object"
    THEN IF "info" \in DOMAIN instruction.parsed.o
         THEN IF instruction.parsed.o.info.t = "object"
              THEN Some(instruction.parsed.o.info.o) ELSE None
         ELSE None
    ELSE None

\* Every required field is present with its JSON type.
WellTyped(instruction) ==
    /\ InfoOf(instruction) # None
    /\ \A name \in RequiredFields(instruction) :
           /\ name \in DOMAIN InfoOf(instruction)[1]
           /\ InfoOf(instruction)[1][name].t = FieldType(name)

\* Every address is base58 of KeyLen bytes and the lamports are a u64.
Parses(instruction) ==
    \A name \in RequiredFields(instruction) :
        IF name = "lamports" THEN InfoOf(instruction)[1][name].n >= 0
        ELSE from_str(InfoOf(instruction)[1][name].s, KeyLen) # None

\* The record of a well-typed instruction whose fields parse.
RecordOf(signature, block_index, timestamp, instruction) ==
    LET info == InfoOf(instruction)[1]
    IN  IF instruction.program_id = VOTE_PROGRAM
        THEN [kind |-> "vote",
              record |-> [signature |-> signature, block_index |-> block_index,
                          timestamp |-> timestamp,
                          author |-> from_str(info.voteAuthority.s, KeyLen)[1],
                          target |-> from_str(info.voteAccount.s, KeyLen)[1]]]
        ELSE [kind |-> "transfer",
              record |-> [signature |-> signature, block_index |-> block_index,
                          timestamp |-> timestamp,
                          source |-> from_str(info.source.s, KeyLen)[1],
                          destination |-> from_str(info.destination.s, KeyLen)[1],
                          lamports |-> info.lamports.n]]

\* The vote and transfer instructions of a block that extract_transactions
\* comes to, each with the signature of its transaction, in order: those of
\* the transactions that are not skipped, up to the first transaction with
\* an empty signature list.
Candidates(transactions) ==
    LET unsigned == {i \in 1..Len(transactions) :
                        /\ transactions[i].encoding = "json"
                        /\ transactions[i].signatures = <<>>}
        reached == IF unsigned = {} THEN Len(transactions)
                   ELSE (CHOOSE i \in unsigned : \A j \in unsigned : i <= j) - 1
        of(transaction) ==
            LET instructions == transaction.message.instructions
            IN  Flatten([j \in 1..Len(instructions) |->
                    IF /\ instructions[j].form = "parsed"
                       /\ instructions[j].program_id \in {VOTE_PROGRAM, SYSTEM_PROGRAM}
                    THEN Some([signature |->
                                   from_str(transaction.signatures[1], SigLen)[1],
                               instruction |-> instructions[j]])
                    ELSE None])
    IN  Flatten([i \in 1..reached |->
            IF Skipped(transactions[i]) THEN <<>> ELSE of(transactions[i])])

\* C28. Candidate field validation: a vote or transfer instruction with a
\* required field missing or of the wrong JSON type sends nothing and the
\* extraction goes on with the next instruction; the first instruction whose
\* fields are all present and well-typed but do not all parse sends nothing
\* and ends the extraction of the block with an error, which fails the
\* attempt: the retry counter goes up and the Extractor is back at the retry
\* policy, the checkpoint still before the block. The records sent are those
\* of the instructions before it that are well-typed and parse.
C28_CandidateFieldValidation ==
    [][/\ GivenStep
            => LET c == Candidates(received)
                   bad == {i \in 1..Len(c) :
                              WellTyped(c[i].instruction) /\ ~Parses(c[i].instruction)}
                   first == IF bad = {} THEN Len(c) + 1
                            ELSE CHOOSE i \in bad : \A j \in bad : i <= j
               IN  /\ pending'
                        = Flatten([i \in 1..(first - 1) |->
                              IF WellTyped(c[i].instruction)
                              THEN Some(RecordOf(c[i].signature, next_block, BlockTime,
                                                 c[i].instruction))
                              ELSE None])
                   /\ bad # {} => outcome' = "invalid"
                   /\ bad = {} => outcome' \in {"ok", "panic"}
       /\ (ePc \in {"fetch", "emit"} /\ outcome' = "invalid" /\ pending' = <<>>)
            => /\ retries' = retries + 1
               /\ ePc' = "connect"
               /\ failed_block' = Some(next_block)
               /\ since_block' = since_block
               /\ next_block' = next_block]_vars

\* A block of two instructions has been extracted: the first has a field
\* of the wrong type and sent nothing, the second is a vote whose address
\* does not parse; the attempt has failed with nothing sent.
C28_Witness ==
    /\ outcome = "invalid"
    /\ ePc = "connect"
    /\ retries = 1
    /\ sent = <<>>
    /\ Len(Candidates(received)) = 2
    /\ ~WellTyped(Candidates(received)[1].instruction)
    /\ WellTyped(Candidates(received)[2].instruction)
    /\ ~Parses(Candidates(received)[2].instruction)

\* The block values to ask for: those a record may be saved with and those
\* the rows of the store read back with.
QueryBlocks ==
    Blocks \cup {find_all_votes(db)[i].block_index : i \in 1..Len(find_all_votes(db))}
           \cup {find_all_transfers(db)[i].block_index :
                     i \in 1..Len(find_all_transfers(db))}

BlockAlone(b) == [signature |-> None, block |-> Some(b), to |-> None, from |-> None]

\* C29. Indexed path agrees with full scan: in every store state reached by
\* completed saves, for every block value, the 'block alone' query of
\* get_votes / get_transfers (index lookup, then the block_index filter)
\* returns the same set of records as the full scan filtered by that value.
C29_IndexedAgreesWithScan ==
    \A b \in QueryBlocks :
        /\ get_votes(db, BlockAlone(b)).ok
        /\ Range(get_votes(db, BlockAlone(b)).rows)
             = Range(find_votes_with_full_scan(db, Some(b), None, None).rows)
        /\ get_transfers(db, BlockAlone(b)).ok
        /\ Range(get_transfers(db, BlockAlone(b)).rows)
             = Range(find_transfers_with_full_scan(db, Some(b), None, None).rows)

\* C30. No dangling index entry: in every reachable state, the states
\* between the writes of a save and those left by a crash or a failed write
\* included, the value of each entry of a kind's index namespace is the
\* encoding of a signature under which the kind's primary namespace holds
\* a row.
C30_NoDanglingIndexEntry ==
    \A kind \in Kinds :
        \A entry \in db[IndexNs(kind)] :
            LET signature == take_array(entry[2], 1, SigLen)
            IN  /\ signature.ok
                /\ signature.next = Len(entry[2]) + 1
                /\ get_cf(db, PrimaryNs(kind), ser_array(signature.val)) # None

\* The Committer failed inside save_vote after the first index entry: the
\* index holds that entry alone, the primary row it points at is there.
C30_Witness ==
    /\ cPc = "failed"
    /\ Cardinality(db[VOTES_INDEX_NS]) = 1
    /\ Cardinality(db[VOTES_NS]) = 1
    /\ db[TRANSFERS_NS] = {}

\* C25. Shutdown liveness: after the cancellation signal is set the
\* Committer eventually terminates, with or without records still queued,
\* and, every call to the node returning, so does the Extractor; and an
\* Extractor waiting on a send after the Committer has exited does not wait
\* forever.
C25_ShutdownLiveness ==
    /\ (cancelled /\ spawns(dry)) ~> (CommitterEnded /\ ExtractorEnded)
    /\ (ePc = "emit" /\ CommitterEnded) ~> (ePc # "emit")

\* Both tasks have terminated after the signal was set, the Committer
\* through the cancellation branch with a record still queued.
C25_Witness ==
    /\ cancelled
    /\ cPc = "cancelled"
    /\ chan # <<>>
    /\ ePc = "done"

\* The primary row Store::save_vote / save_transfer writes for each record
\* of the ledger, with the record's kind and block_index.
LedgerRows ==
    {[kind |-> item.kind,
      block_index |-> item.record.block_index,
      row |-> <<ser_array(item.record.signature),
                IF item.kind = "vote" THEN serialize_vote(item.record)
                ELSE serialize_transfer(item.record)>>] :
        item \in UNION {Range(BlockRecords(b)) : b \in Slots}}

\* The block_index of the records of a kind whose primary row the store holds.
HeldBlocks(kind) ==
    {l.block_index : l \in {h \in LedgerRows :
                                h.kind = kind /\ h.row \in db[PrimaryNs(kind)]}}

\* C31. Watermark covers every stored record: in every state a reader can
\* observe, the states between the writes of a save and those left by a
\* failed write or a stop of the process included, every primary row is the
\* row of a record, and every stored record whose block_index is above 0 has
\* a block_index at most last_known_block(); the watermark may be ahead of
\* the stored records, never behind them.
C31_WatermarkCoversStored ==
    LET watermark == last_known_block(db)
    IN  \A kind \in Kinds :
            \A row \in db[PrimaryNs(kind)] :
                \E l \in LedgerRows :
                    /\ l.kind = kind
                    /\ l.row = row
                    /\ l.block_index > 0
                          => watermark # None /\ l.block_index <= watermark[1]

\* Inside the save of a record of a later block, after the watermark write
\* and before the row: the store holds rows, all of an earlier block, and
\* the watermark is ahead of every one of them.
C31_Witness ==
    /\ cPc = "save"
    /\ cStep = 2
    /\ HeldBlocks("vote") \cup HeldBlocks("transfer") # {}
    /\ last_known_block(db) = Some(cRec[1].record.block_index)
    /\ \A b \in HeldBlocks("vote") \cup HeldBlocks("transfer") :
           b < cRec[1].record.block_index

\* The calls of do_extract_continuously that have returned an error, where
\* the extractor's position tells whether the latest call is among them.
FailedAttempts ==
    IF ePc \in {"connect", "gaveup"} THEN attempts ELSE attempts - 1

\* C32. Retry budget is cumulative: the retry counter of
\* extract_continuously counts every failed attempt since the task started
\* and is never set back, whatever the blocks processed in between; the
\* Extractor stops for good at its 4th failed attempt, and neither the failed
\* attempts nor the attempts started ever exceed 4.
C32_CumulativeRetryBudget ==
    [][/\ attempts' <= MaxRetries + 1
       /\ retries' <= MaxRetries + 1
       /\ ePc' \in {"connect", "fetch", "emit", "check", "done", "gaveup", "panicked"}
            => (/\ attempts' >= 1 => FailedAttempts' = retries'
                /\ ePc' = "gaveup" <=> retries' = MaxRetries + 1)
       /\ crashes' = crashes => retries' >= retries
       /\ (ePc = "check" /\ ePc' = "fetch") => retries' = retries
       /\ (ePc = "gaveup" /\ crashes' = crashes) => ePc' \in {"gaveup", "killed"}]_vars

\* Three attempts failed at the first block, then the block was processed
\* and the cursor moved past it: the counter still holds the three failures.
C32_Witness ==
    /\ crashes = 0
    /\ ePc = "fetch"
    /\ next_block > EpochFirstSlot
    /\ failed_block = Some(EpochFirstSlot)
    /\ retries = MaxRetries
    /\ attempts = MaxRetries + 1

====
